---- MODULE Spec2Model ----
(***************************************************************************)
(* Model of generate_table.py: fetch_models_data, generate_html and main.  *)
(*                                                                         *)
(* Text is a sequence of tokens.  A character taken from the catalog is a  *)
(* one-character string; a literal of the row template (an opening tag up  *)
(* to its attribute value, the closing of an attribute, a closing tag) is  *)
(* one token holding the literal.  Python values are records               *)
(* [t, s, n]: t is the type ("absent" for a key that is not in the dict,   *)
(* "null" for None, "str", "int", "obj"), s the characters of a str and n  *)
(* the value of an int.                                                    *)
(***************************************************************************)
EXTENDS Integers, Sequences, FiniteSets, TLC

\* ---------------------------------------------------------------- bounds
\* Largest number of model records in the "data" list of a response.
MaxModels == 2

\* ------------------------------------------------------- Python values
Absent == [t |-> "absent", s |-> <<>>, n |-> 0]
Null == [t |-> "null", s |-> <<>>, n |-> 0]
Obj == [t |-> "obj", s |-> <<>>, n |-> 0]
Str(chars) == [t |-> "str", s |-> chars, n |-> 0]
Int_(k) == [t |-> "int", s |-> <<>>, n |-> k]

\* A result of evaluating an expression: a text, or an exception.
Ok(chars) == [raised |-> FALSE, text |-> chars]
Raise == [raised |-> TRUE, text |-> <<>>]

\* dict.get(key, default): the default only replaces a key that is absent;
\* a key stored with the value None yields None.
Get(value, default) == IF value.t = "absent" THEN default ELSE value

\* bool(value) for the values of the model.
Truthy(value) ==
    CASE value.t = "str" -> value.s # <<>>
      [] value.t = "int" -> value.n # 0
      [] value.t = "obj" -> TRUE
      [] OTHER -> FALSE

\* -------------------------------------------------------------- numbers
Digits == <<"0", "1", "2", "3", "4", "5", "6", "7", "8", "9">>

IsDigit(c) == \E i \in 1..10 : Digits[i] = c

DigitVal(c) == (CHOOSE i \in 1..10 : Digits[i] = c) - 1

RECURSIVE Pow10(_)
Pow10(k) == IF k = 0 THEN 1 ELSE 10 * Pow10(k - 1)

\* str(k) of a non-negative int.
RECURSIVE NatToStr(_)
NatToStr(k) ==
    IF k < 10 THEN <<Digits[k + 1]>>
    ELSE NatToStr(k \div 10) \o <<Digits[(k % 10) + 1]>>

\* str(k) of an int.
IntToStr(k) == IF k < 0 THEN <<"-">> \o NatToStr(-k) ELSE NatToStr(k)

\* The digits of k, zero-padded on the left to the given width.
RECURSIVE Pad(_, _)
Pad(chars, width) ==
    IF Len(chars) >= width THEN chars ELSE Pad(<<"0">> \o chars, width)

\* format(k, ",") of a non-negative int: groups of three digits from the
\* right, separated by commas.
RECURSIVE GroupNat(_)
GroupNat(k) ==
    IF k < 1000 THEN NatToStr(k)
    ELSE GroupNat(k \div 1000) \o <<",">> \o Pad(NatToStr(k % 1000), 3)

\* f"{context_length:,}": defined for an int; None raises TypeError and a
\* str raises ValueError.
FormatGrouped(value) ==
    IF value.t # "int" THEN Raise
    ELSE IF value.n < 0 THEN Ok(<<"-">> \o GroupNat(-value.n))
    ELSE Ok(GroupNat(value.n))


\* ------------------------------------------------------------ html.escape
\* Variant: html.escape(s, quote=False), the quotes pass unescaped.
EscapeChar_NoQuotes(c) ==
    CASE c = "&" -> <<"&", "a", "m", "p", ";">>
      [] c = "<" -> <<"&", "l", "t", ";">>
      [] c = ">" -> <<"&", "g", "t", ";">>
      [] OTHER -> <<c>>

EscapeChar(c) ==
    CASE c = "&" -> <<"&", "a", "m", "p", ";">>
      [] c = "<" -> <<"&", "l", "t", ";">>
      [] c = ">" -> <<"&", "g", "t", ";">>
      [] c = "\"" -> <<"&", "q", "u", "o", "t", ";">>
      [] c = "'" -> <<"&", "#", "x", "2", "7", ";">>
      [] OTHER -> <<c>>

RECURSIVE EscapeChars(_)
EscapeChars(chars) ==
    IF chars = <<>> THEN <<>>
    ELSE EscapeChar(Head(chars)) \o EscapeChars(Tail(chars))

\* html.escape(value): value.replace(...) exists on a str only, any other
\* value raises AttributeError.
html_escape(value) ==
    IF value.t # "str" THEN Raise ELSE Ok(EscapeChars(value.s))

\* ------------------------------------------------------------------ float
\* float(chars) for a text over digits, ".", "-", "+" and letters: an
\* optional sign, then digits with at most one "." and at least one digit.
\* The result is mant * 10^(-dec), negated when neg; ok is FALSE where
\* float() raises ValueError.  (Exponents, "inf", "nan", "_" and blanks are
\* outside the alphabet of the inputs.)
HasSign(chars) == chars # <<>> /\ Head(chars) \in {"-", "+"}

Unsigned(chars) == IF HasSign(chars) THEN Tail(chars) ELSE chars

Dots(chars) == {i \in 1..Len(chars) : chars[i] = "."}

RECURSIVE DigitsToNat(_)
DigitsToNat(chars) ==
    IF chars = <<>> THEN 0
    ELSE 10 * DigitsToNat(SubSeq(chars, 1, Len(chars) - 1))
         + DigitVal(chars[Len(chars)])

ParseFloat(chars) ==
    LET body == Unsigned(chars)
        dot == IF Dots(body) = {} THEN Len(body) + 1
               ELSE CHOOSE i \in Dots(body) : \A j \in Dots(body) : i <= j
        ip == SubSeq(body, 1, dot - 1)
        fp == SubSeq(body, dot + 1, Len(body))
        wellFormed == /\ Cardinality(Dots(body)) <= 1
                      /\ \A i \in 1..Len(ip) : IsDigit(ip[i])
                      /\ \A i \in 1..Len(fp) : IsDigit(fp[i])
                      /\ Len(ip) + Len(fp) >= 1
    IN  IF wellFormed
        THEN [ok |-> TRUE, neg |-> HasSign(chars) /\ Head(chars) = "-",
              mant |-> DigitsToNat(ip \o fp), dec |-> Len(fp)]
        ELSE [ok |-> FALSE, neg |-> FALSE, mant |-> 0, dec |-> 0]

\* float(value): a str is parsed, an int converts, None and a dict raise
\* TypeError.
ToFloat(value) ==
    CASE value.t = "str" -> ParseFloat(value.s)
      [] value.t = "int" ->
            [ok |-> TRUE, neg |-> value.n < 0,
             mant |-> IF value.n < 0 THEN -value.n ELSE value.n, dec |-> 0]
      [] OTHER -> [ok |-> FALSE, neg |-> FALSE, mant |-> 0, dec |-> 0]

\* round(x * 1_000_000, 4) as [whole, frac]: the whole units and the
\* ten-thousandths (the sign is kept apart, -0.0 keeps its sign).  An exact
\* half rounds to even; the inputs of the model hold no exact half, where
\* the binary error of the product decides.
RoundHalfEven(num, den) ==
    LET q == num \div den
        r == num % den
    IN  IF 2 * r > den \/ (2 * r = den /\ q % 2 = 1) THEN q + 1 ELSE q

\* Variant: the digits behind the fourth decimal are cut off instead of
\* rounded.
PerMillionRounded_Truncated(f) ==
    IF f.dec <= 6
    THEN [whole |-> f.mant * Pow10(6 - f.dec), frac |-> 0]
    ELSE LET tt == IF f.dec <= 10 THEN f.mant * Pow10(10 - f.dec)
                   ELSE f.mant \div Pow10(f.dec - 10)
         IN  [whole |-> tt \div 10000, frac |-> tt % 10000]

PerMillionRounded(f) ==
    IF f.dec <= 6
    THEN [whole |-> f.mant * Pow10(6 - f.dec), frac |-> 0]
    ELSE LET tt == IF f.dec <= 10 THEN f.mant * Pow10(10 - f.dec)
                   ELSE RoundHalfEven(f.mant, Pow10(f.dec - 10))
         IN  [whole |-> tt \div 10000, frac |-> tt % 10000]

\* f"{x:.4f}" of the rounded float.
FormatFixed4(neg, q) ==
    (IF neg THEN <<"-">> ELSE <<>>)
    \o NatToStr(q.whole) \o <<".">> \o Pad(NatToStr(q.frac), 4)

\* f"{x}" (repr) of the same float: the shortest decimal, with at least one
\* digit after the point.
RECURSIVE StripZeros(_)
StripZeros(chars) ==
    IF Len(chars) > 1 /\ chars[Len(chars)] = "0"
    THEN StripZeros(SubSeq(chars, 1, Len(chars) - 1))
    ELSE chars

FormatRepr(neg, q) ==
    (IF neg THEN <<"-">> ELSE <<>>)
    \o NatToStr(q.whole) \o <<".">> \o StripZeros(Pad(NatToStr(q.frac), 4))

\* The try/except around one price: the sort key written to data-order and
\* the display value handed to html.escape.
PriceCell(price) ==
    LET f == ToFloat(price)
    IN  IF f.ok
        THEN [numeric |-> FormatRepr(f.neg, PerMillionRounded(f)),
              display |->
                  Str(<<"$">> \o FormatFixed4(f.neg, PerMillionRounded(f)))]
        ELSE [numeric |-> <<"0">>, display |-> Str(<<"N", "/", "A">>)]

\* --------------------------------------------------------------- created
\* datetime.fromtimestamp(created, tz=timezone.utc).strftime('%Y-%m-%d'):
\* the civil date of the day that holds the second `seconds` of the epoch.
CivilDate(seconds) ==
    LET z == (seconds \div 86400) + 719468
        era == z \div 146097
        doe == z - era * 146097
        yoe == (doe - doe \div 1460 + doe \div 36524 - doe \div 146096) \div 365
        doy == doe - (365 * yoe + yoe \div 4 - yoe \div 100)
        mp == (5 * doy + 2) \div 153
        d == doy - (153 * mp + 2) \div 5 + 1
        m == IF mp < 10 THEN mp + 3 ELSE mp - 9
        y == yoe + era * 400 + (IF m <= 2 THEN 1 ELSE 0)
    IN  Pad(NatToStr(y), 4) \o <<"-">> \o Pad(NatToStr(m), 2)
        \o <<"-">> \o Pad(NatToStr(d), 2)

\* created_date: 'N/A' for a falsy created, the date of an int, and
\* TypeError from fromtimestamp for a non-empty str.
CreatedDate(created) ==
    IF ~Truthy(created) THEN Ok(<<"N", "/", "A">>)
    ELSE IF created.t = "int" THEN Ok(CivilDate(created.n))
    ELSE Raise

\* ---------------------------------------------------------- model records
\* A model record is a function from Fields to values.  "prompt" and
\* "completion" are the keys of the dict stored under "pricing",
\* "modality", "tokenizer" and "instruct_type" those of "architecture",
\* "provider_name" is the key "name" of "top_provider"; they are read only
\* where the enclosing value is a dict.
Fields ==
    {"id", "name", "context_length", "pricing", "prompt", "completion",
     "architecture", "modality", "tokenizer", "instruct_type", "created",
     "top_provider", "provider_name"}

\* container.get(key, default) after container = model.get(parent, {}):
\* raises AttributeError unless the container is a dict.
SubGet(model, parent, key, default) ==
    CASE model[parent].t = "absent" -> [raised |-> FALSE, value |-> default]
      [] model[parent].t = "obj" ->
            [raised |-> FALSE, value |-> Get(model[key], default)]
      [] OTHER -> [raised |-> TRUE, value |-> Null]

\* f"{value}": str() of the value; None prints as the text None.
FormatValue(value) ==
    CASE value.t = "str" -> value.s
      [] value.t = "int" -> IntToStr(value.n)
      [] value.t = "null" -> <<"N", "o", "n", "e">>
      [] OTHER -> <<>>

\* f"{context_length}" in data-order: never raises by itself.
FormatPlain(value) == Ok(FormatValue(value))

\* arch_display: the modality is always printed, a truthy tokenizer and a
\* truthy instruct_type are each appended behind " | ".
ArchDisplay(modality, tokenizer, instruct_type) ==
    Str(FormatValue(modality)
        \o (IF Truthy(tokenizer)
            THEN <<" ", "|", " ">> \o FormatValue(tokenizer) ELSE <<>>)
        \o (IF Truthy(instruct_type)
            THEN <<" ", "|", " ">> \o FormatValue(instruct_type) ELSE <<>>))

\* top_provider_name: top_provider.get('name', 'N/A') if top_provider else
\* 'N/A'.  A dict that holds no key at all is falsy and takes the second
\* branch, with the same result as the default of get.
TopProviderName(model) ==
    IF model["top_provider"].t = "obj"
    THEN Get(model["provider_name"], Str(<<"N", "/", "A">>))
    ELSE Str(<<"N", "/", "A">>)

\* The literals of the row template.
TR_OPEN == "<tr>"
TR_CLOSE == "</tr>"
TD_CLOSE == "</td>"
ATTR_CLOSE == "\">"
TD_OPEN == "<td>"
TD_MODEL_ID == "<td class=\"model-id\">"
TD_CONTEXT == "<td class=\"context-length\" data-order=\""
TD_PRICE == "<td class=\"price-cell\" data-order=\""
TD_ARCH == "<td class=\"architecture\">"
TD_CREATED == "<td class=\"created-date\">"

\* One pass of the loop body for one model: the text appended to
\* html_template, or the exception that leaves the loop.
Row(model) ==
    LET model_id == Get(model["id"], Str(<<>>))
        name == Get(model["name"], Str(<<>>))
        context_length == Get(model["context_length"], Int_(0))
        prompt_price == SubGet(model, "pricing", "prompt", Str(<<"0">>))
        completion_price ==
            SubGet(model, "pricing", "completion", Str(<<"0">>))
        prompt == PriceCell(prompt_price.value)
        completion == PriceCell(completion_price.value)
        arch_modality == SubGet(model, "architecture", "modality", Str(<<>>))
        arch_tokenizer ==
            SubGet(model, "architecture", "tokenizer", Str(<<>>))
        arch_instruct_type ==
            SubGet(model, "architecture", "instruct_type", Str(<<>>))
        arch_display == ArchDisplay(arch_modality.value, arch_tokenizer.value,
                                    arch_instruct_type.value)
        created == Get(model["created"], Int_(0))
        created_date == CreatedDate(created)
        top_provider_name == TopProviderName(model)
        c1 == html_escape(model_id)
        c2 == html_escape(name)
        c3o == FormatPlain(context_length)
        c3 == FormatGrouped(context_length)
        c4 == html_escape(prompt.display)
        c5 == html_escape(completion.display)
        c6 == html_escape(arch_display)
        c7 == IF created_date.raised THEN Raise
              ELSE html_escape(Str(created_date.text))
        c8 == html_escape(top_provider_name)
    IN  IF \/ prompt_price.raised \/ completion_price.raised
           \/ arch_modality.raised \/ arch_tokenizer.raised
           \/ arch_instruct_type.raised
           \/ c1.raised \/ c2.raised \/ c3o.raised \/ c3.raised
           \/ c4.raised \/ c5.raised \/ c6.raised \/ c7.raised \/ c8.raised
        THEN Raise
        ELSE Ok(<<TR_OPEN>>
                \o <<TD_MODEL_ID>> \o c1.text \o <<TD_CLOSE>>
                \o <<TD_OPEN>> \o c2.text \o <<TD_CLOSE>>
                \o <<TD_CONTEXT>> \o c3o.text \o <<ATTR_CLOSE>>
                    \o c3.text \o <<TD_CLOSE>>
                \o <<TD_PRICE>> \o prompt.numeric \o <<ATTR_CLOSE>>
                    \o c4.text \o <<TD_CLOSE>>
                \o <<TD_PRICE>> \o completion.numeric \o <<ATTR_CLOSE>>
                    \o c5.text \o <<TD_CLOSE>>
                \o <<TD_ARCH>> \o c6.text \o <<TD_CLOSE>>
                \o <<TD_CREATED>> \o c7.text \o <<TD_CLOSE>>
                \o <<TD_OPEN>> \o c8.text \o <<TD_CLOSE>>
                \o <<TR_CLOSE>>)

\* Variant: each row is put in front of the rows built before it.
RECURSIVE Rows_Prepended(_)
Rows_Prepended(models) ==
    IF models = <<>> THEN [raised |-> FALSE, rows |-> <<>>]
    ELSE LET init == Rows_Prepended(SubSeq(models, 1, Len(models) - 1))
             last == Row(models[Len(models)])
         IN  IF init.raised \/ last.raised
             THEN [raised |-> TRUE, rows |-> <<>>]
             ELSE [raised |-> FALSE, rows |-> <<last.text>> \o init.rows]

\* The loop over models: the rows appended so far, in order, until a pass
\* raises.
RECURSIVE Rows(_)
Rows(models) ==
    IF models = <<>> THEN [raised |-> FALSE, rows |-> <<>>]
    ELSE LET init == Rows(SubSeq(models, 1, Len(models) - 1))
             last == Row(models[Len(models)])
         IN  IF init.raised \/ last.raised
             THEN [raised |-> TRUE, rows |-> <<>>]
             ELSE [raised |-> FALSE, rows |-> Append(init.rows, last.text)]

\* A parsed response body is [t, data, models]: t is "dict" for a JSON
\* object and "other" for any other JSON value; data is the type of the
\* value under the key "data" and models the list it holds.
\* generate_html(models_data): the rows of the table body of the returned
\* document (the shell around them is a fixed text and the timestamp),
\* or the exception raised.
generate_html(md) ==
    CASE md.t # "dict" -> [raised |-> TRUE, rows |-> <<>>]
      [] md.data = "absent" -> [raised |-> FALSE, rows |-> <<>>]
      [] md.data = "list" -> Rows(md.models)
      [] OTHER -> [raised |-> TRUE, rows |-> <<>>]

\* ------------------------------------------------------- catalog contents
\* A fully populated record, and the record that holds its id only.
Base ==
    [id |-> Str(<<"a", "/", "b">>),
     name |-> Str(<<"A", "&", "B">>),
     context_length |-> Int_(1048576),
     pricing |-> Obj,
     prompt |-> Str(<<"0", ".", "0", "0", "0", "0", "1", "5">>),
     completion |-> Str(<<"0">>),
     architecture |-> Obj,
     modality |-> Str(<<"t", "x">>),
     tokenizer |-> Str(<<"c", "l">>),
     instruct_type |-> Str(<<"i">>),
     created |-> Int_(1700000000),
     top_provider |-> Obj,
     provider_name |-> Str(<<"P">>)]

Minimal == [f \in Fields |-> IF f = "id" THEN Str(<<"m">>) ELSE Absent]

\* Values a catalog can hold in one field instead of the value of Base.
PriceAlts ==
    {Absent, Null, Str(<<>>), Str(<<"a", "b", "c">>), Str(<<"0">>),
     Str(<<"1", ".", "2", ".", "3">>),
     Str(<<"-", "0", ".", "0", "0", "0", "0", "0", "1">>),
     Str(<<".", "0", "0", "0", "0", "0", "0", "0", "0", "0", "1", "6">>),
     Str(<<"0", ".", "0", "0", "0", "0", "0", "1", "2", "5">>)}

Alts ==
    ({"name"} \X {Absent, Null, Str(<<"<", "b", ">">>),
                  Str(<<"\"", "'">>)})
    \cup ({"context_length"} \X {Absent, Null, Int_(0), Int_(999),
                                 Str(<<"8", "k">>)})
    \cup ({"pricing", "architecture", "top_provider"} \X {Absent, Null})
    \cup ({"prompt"} \X PriceAlts)
    \cup ({"completion"} \X {Absent, Null, Str(<<"x">>),
                             Str(<<"0", ".", "0", "0", "0", "0", "6">>)})
    \cup ({"modality", "tokenizer", "instruct_type"}
          \X {Absent, Null, Str(<<>>)})
    \cup ({"created"} \X {Absent, Null, Int_(0), Int_(86399),
                          Int_(951782400), Str(<<"x">>)})
    \cup ({"provider_name"} \X {Absent, Null, Str(<<"<", "i", ">">>)})

\* The fields whose malformation the renderer recovers by a fallback.
RecoveredFields == {"prompt", "completion", "created", "context_length"}

\* A record with several fields off the values of Base at once.
Mixed ==
    [Base EXCEPT !["name"] = Str(<<"<", "b", ">">>),
                 !["prompt"] = Str(<<".", "0", "0", "0", "0", "0", "0", "0",
                                     "0", "0", "1", "6">>),
                 !["completion"] = Str(<<"x">>),
                 !["instruct_type"] = Null,
                 !["created"] = Int_(0),
                 !["provider_name"] = Str(<<"<", "i", ">">>)]

\* The records of the model: Base, Minimal and Mixed, Base with one field
\* replaced, and Base with the architecture reduced to its modality.
Records ==
    {Base, Minimal, Mixed,
     [Base EXCEPT !["tokenizer"] = Absent, !["instruct_type"] = Absent]}
    \cup {[Base EXCEPT ![a[1]] = a[2]] : a \in Alts}

\* The records that lists of more than one model are built from.
Core ==
    {Base, Minimal, Mixed,
     [Base EXCEPT !["name"] = Str(<<"\"", "'">>)],
     [Base EXCEPT !["name"] = Null]}

RECURSIVE SeqsUpTo(_, _)
SeqsUpTo(S, k) ==
    IF k = 0 THEN {<<>>}
    ELSE LET shorter == SeqsUpTo(S, k - 1)
         IN  shorter \cup {Append(q, x) : q \in shorter, x \in S}

\* The bodies fetch_models_data can parse: a JSON value that is no object,
\* an object without "data" or with "data": null, and an object whose
\* "data" is a list of one record or of up to MaxModels core records.
Responses ==
    {[t |-> "other", data |-> "absent", models |-> <<>>],
     [t |-> "dict", data |-> "absent", models |-> <<>>],
     [t |-> "dict", data |-> "null", models |-> <<>>]}
    \cup {[t |-> "dict", data |-> "list", models |-> ms] :
            ms \in {<<r>> : r \in Records} \cup SeqsUpTo(Core, MaxModels)}

NoData == [t |-> "none", data |-> "absent", models |-> <<>>]

\* ------------------------------------------------------------------ state
VARIABLES
    pc,            \* the statement of main about to run
    models_data,   \* the value returned by fetch_models_data
    html_content,  \* the rows of the document returned by generate_html
    json_file,     \* models_data.json during this run
    html_file,     \* index.html during this run
    console,       \* the lines printed so far
    trace,         \* the stages completed so far, in order
    ret            \* the value returned by main, -1 while it runs

vars ==
    <<pc, models_data, html_content, json_file, html_file, console, trace,
      ret>>

Line(kind, text, n) == [kind |-> kind, text |-> text, n |-> n]

Init ==
    /\ pc = "start"
    /\ models_data = NoData
    /\ html_content = <<>>
    /\ json_file = [state |-> "untouched", content |-> NoData]
    /\ html_file = [state |-> "untouched", content |-> <<>>]
    /\ console = <<>>
    /\ trace = <<>>
    /\ ret = -1

\* main: the print before the try block.
Start ==
    /\ pc = "start"
    /\ pc' = "fetch"
    /\ console' =
         Append(console,
                Line("info", "Fetching models data from OpenRouter API...", 0))
    /\ UNCHANGED <<models_data, html_content, json_file, html_file, trace, ret>>

\* fetch_models_data returns the parsed body.
FetchOk ==
    /\ pc = "fetch"
    /\ \E md \in Responses : models_data' = md
    /\ pc' = "count"
    /\ trace' = Append(trace, "fetch")
    /\ UNCHANGED <<html_content, json_file, html_file, console, ret>>

\* fetch_models_data: urlopen raises URLError; the handler prints and
\* re-raises into the try block of main.
FetchURLError ==
    /\ pc = "fetch"
    /\ console' =
         Append(console, Line("error", "Error fetching data from API: ", 0))
    /\ pc' = "except"
    /\ UNCHANGED <<models_data, html_content, json_file, html_file, trace, ret>>

\* fetch_models_data: an exception that is not a URLError (the body is not
\* JSON or not UTF-8, the connection breaks while the body is read) passes
\* the handler of fetch_models_data unprinted.
FetchOtherError ==
    /\ pc = "fetch"
    /\ pc' = "except"
    /\ UNCHANGED <<models_data, html_content, json_file, html_file, console,
                   trace, ret>>

\* len(models_data.get('data', [])): defined for a dict whose "data" is
\* absent or a list.
CanCount(md) == md.t = "dict" /\ md.data \in {"absent", "list"}

\* main: the print of the record count.
PrintCount ==
    /\ pc = "count"
    /\ CanCount(models_data)
    /\ console' =
         Append(console,
                Line("info", "Successfully fetched models",
                     Len(models_data.models)))
    /\ pc' = "save_json"
    /\ UNCHANGED <<models_data, html_content, json_file, html_file, trace, ret>>

\* main: the same statement raising AttributeError or TypeError.
PrintCountRaise ==
    /\ pc = "count"
    /\ ~CanCount(models_data)
    /\ pc' = "except"
    /\ UNCHANGED <<models_data, html_content, json_file, html_file, console,
                   trace, ret>>

\* main: models_data.json is opened, written and closed, then the print.
SaveJson ==
    /\ pc = "save_json"
    /\ json_file' = [state |-> "written", content |-> models_data]
    /\ console' =
         Append(console, Line("info", "Saved raw data to models_data.json", 0))
    /\ trace' = Append(trace, "save_json")
    /\ pc' = "render"
    /\ UNCHANGED <<models_data, html_content, html_file, ret>>

\* main: open raises (the file is left alone) or the write raises after
\* open has truncated the file.
SaveJsonRaise ==
    /\ pc = "save_json"
    /\ \E st \in {"untouched", "partial"} :
         json_file' = [state |-> st, content |-> NoData]
    /\ pc' = "except"
    /\ UNCHANGED <<models_data, html_content, html_file, console, trace, ret>>

\* main: html_content = generate_html(models_data).
Render ==
    /\ pc = "render"
    /\ ~generate_html(models_data).raised
    /\ html_content' = generate_html(models_data).rows
    /\ trace' = Append(trace, "render")
    /\ pc' = "save_html"
    /\ UNCHANGED <<models_data, json_file, html_file, console, ret>>

\* Variant: index.html is opened for writing before generate_html is
\* called, so that a raise leaves it truncated.
RenderRaise_FileOpened ==
    /\ pc = "render"
    /\ generate_html(models_data).raised
    /\ html_file' = [state |-> "partial", content |-> <<>>]
    /\ pc' = "except"
    /\ UNCHANGED <<models_data, html_content, json_file, console, trace, ret>>

\* main: generate_html raises.
RenderRaise ==
    /\ pc = "render"
    /\ generate_html(models_data).raised
    /\ pc' = "except"
    /\ UNCHANGED <<models_data, html_content, json_file, html_file, console,
                   trace, ret>>

\* main: index.html is opened, written and closed, then the print.
SaveHtml ==
    /\ pc = "save_html"
    /\ html_file' = [state |-> "written", content |-> html_content]
    /\ console' = Append(console, Line("info", "Generated index.html", 0))
    /\ trace' = Append(trace, "save_html")
    /\ pc' = "finish"
    /\ UNCHANGED <<models_data, html_content, json_file, ret>>

\* Variant: the failed write of index.html is not noticed.
SaveHtmlRaise_Ignored ==
    /\ pc = "save_html"
    /\ \E st \in {"untouched", "partial"} :
         html_file' = [state |-> st, content |-> <<>>]
    /\ pc' = "finish"
    /\ UNCHANGED <<models_data, html_content, json_file, console, trace, ret>>

\* main: open raises (the file is left alone) or the write raises after
\* open has truncated the file.
SaveHtmlRaise ==
    /\ pc = "save_html"
    /\ \E st \in {"untouched", "partial"} :
         html_file' = [state |-> st, content |-> <<>>]
    /\ pc' = "except"
    /\ UNCHANGED <<models_data, html_content, json_file, console, trace, ret>>

\* main: the closing print, and return 0 behind the try statement.
Finish ==
    /\ pc = "finish"
    /\ console' =
         Append(console,
                Line("info",
                     "Done! Open index.html in your browser to view the table.",
                     0))
    /\ ret' = 0
    /\ pc' = "done"
    /\ UNCHANGED <<models_data, html_content, json_file, html_file, trace>>

\* Variant: the handler prints and falls through to the return 0 behind
\* the try statement.
Except_FallsThrough ==
    /\ pc = "except"
    /\ console' = Append(console, Line("error", "Error: ", 0))
    /\ ret' = 0
    /\ pc' = "done"
    /\ UNCHANGED <<models_data, html_content, json_file, html_file, trace>>

\* main: except Exception prints the error and returns 1.
Except ==
    /\ pc = "except"
    /\ console' = Append(console, Line("error", "Error: ", 0))
    /\ ret' = 1
    /\ pc' = "done"
    /\ UNCHANGED <<models_data, html_content, json_file, html_file, trace>>

Next ==
    \/ Start
    \/ FetchOk
    \/ FetchURLError
    \/ FetchOtherError
    \/ PrintCount
    \/ PrintCountRaise
    \/ SaveJson
    \/ SaveJsonRaise
    \/ Render
    \/ RenderRaise
    \/ SaveHtml
    \/ SaveHtmlRaise
    \/ Finish
    \/ Except

Spec == Init /\ [][Next]_vars

\* ------------------------------------------------- reading the document
\* What a reader of the markup sees in a row: the literals of the template
\* and every raw angle bracket are markup, all other tokens are text.
TdOpens == {TD_OPEN, TD_MODEL_ID, TD_CONTEXT, TD_PRICE, TD_ARCH, TD_CREATED}

IsTdOpen(tok) == tok \in TdOpens

IsMarkup(tok) ==
    tok \in TdOpens \cup {TR_OPEN, TR_CLOSE, TD_CLOSE, ATTR_CLOSE, "<", ">"}

\* The markup of a row of eight cells, in the order of the column heads.
RowSkeleton ==
    <<TR_OPEN, TD_MODEL_ID, TD_CLOSE, TD_OPEN, TD_CLOSE,
      TD_CONTEXT, ATTR_CLOSE, TD_CLOSE, TD_PRICE, ATTR_CLOSE, TD_CLOSE,
      TD_PRICE, ATTR_CLOSE, TD_CLOSE, TD_ARCH, TD_CLOSE,
      TD_CREATED, TD_CLOSE, TD_OPEN, TD_CLOSE, TR_CLOSE>>

First(S) == CHOOSE i \in S : \A j \in S : i <= j

\* The k-th cell of a row: the value of data-order (empty when the cell has
\* none) and the text between the opening tag and the next closing tag.
Cell(row, k) ==
    LET open == CHOOSE i \in 1..Len(row) :
                    /\ IsTdOpen(row[i])
                    /\ Cardinality({j \in 1..i : IsTdOpen(row[j])}) = k
        close == First({j \in (open + 1)..Len(row) : row[j] = TD_CLOSE})
        inner == SubSeq(row, open + 1, close - 1)
        quote == First({j \in 1..Len(inner) : inner[j] = ATTR_CLOSE})
    IN  IF row[open] \in {TD_CONTEXT, TD_PRICE}
        THEN [order |-> SubSeq(inner, 1, quote - 1),
              text |-> SubSeq(inner, quote + 1, Len(inner))]
        ELSE [order |-> <<>>, text |-> inner]

\* The character an entity stands for, and the text a reader displays.
Entities ==
    {<<<<"&", "a", "m", "p", ";">>, "&">>,
     <<<<"&", "l", "t", ";">>, "<">>,
     <<<<"&", "g", "t", ";">>, ">">>,
     <<<<"&", "q", "u", "o", "t", ";">>, "\"">>,
     <<<<"&", "#", "x", "2", "7", ";">>, "'">>}

StartsWith(chars, prefix) ==
    Len(chars) >= Len(prefix) /\ SubSeq(chars, 1, Len(prefix)) = prefix

\* TRUE iff no character of the text is markup-active: every "&" opens one
\* of the five entities and no "<", ">" or quote stands for itself.
RECURSIVE WellEscaped(_)
WellEscaped(chars) ==
    IF chars = <<>> THEN TRUE
    ELSE IF \E e \in Entities : StartsWith(chars, e[1])
    THEN LET e == CHOOSE e \in Entities : StartsWith(chars, e[1])
         IN  WellEscaped(SubSeq(chars, Len(e[1]) + 1, Len(chars)))
    ELSE /\ Head(chars) \notin {"&", "<", ">", "\"", "'"}
         /\ WellEscaped(Tail(chars))

RECURSIVE Unescape(_)
Unescape(chars) ==
    IF chars = <<>> THEN <<>>
    ELSE IF \E e \in Entities : StartsWith(chars, e[1])
    THEN LET e == CHOOSE e \in Entities : StartsWith(chars, e[1])
         IN  <<e[2]>> \o Unescape(SubSeq(chars, Len(e[1]) + 1, Len(chars)))
    ELSE <<Head(chars)>> \o Unescape(Tail(chars))

\* The stages of main, and the states in which generate_html has returned
\* or has raised.
Stages == <<"fetch", "save_json", "render", "save_html">>

Rendered == Len(trace) >= 3

RenderFailed == pc \in {"except", "done"} /\ trace = <<"fetch", "save_json">>

FetchFailed == pc \in {"except", "done"} /\ trace = <<>>

ErrorLines == {i \in 1..Len(console) : console[i].kind = "error"}

\* ----------------------------------------------------------------- claims

\* C2: when fetch_models_data fails (URLError, or an exception of another
\* class such as a body that is not JSON), main ends with a non-zero exit
\* status and neither models_data.json nor index.html is written in the run.
C2_FetchFailureWritesNothing ==
    FetchFailed =>
        /\ json_file.state = "untouched"
        /\ html_file.state = "untouched"
        /\ pc = "done" => ret = 1

C2_Witness ==
    /\ FetchFailed
    /\ pc = "done"
    /\ ErrorLines = {2}

\* C8: a run that ends in a fatal failure prints exactly one error line and
\* exits non-zero; a run that does not fail prints no error line and prints
\* the record count and the confirmations of both output files.
C8_SingleErrorMessage ==
    pc = "done" =>
        /\ ret # 0 => Cardinality(ErrorLines) = 1
        /\ ret = 0 =>
            /\ ErrorLines = {}
            /\ \E i \in 1..Len(console) :
                 /\ console[i].text = "Successfully fetched models"
                 /\ console[i].n = Len(models_data.models)
            /\ \E i \in 1..Len(console) :
                 console[i].text = "Saved raw data to models_data.json"
            /\ \E i \in 1..Len(console) :
                 console[i].text = "Generated index.html"

\* C9: the stages run in the order fetch, write of models_data.json,
\* render, write of index.html, each at most once and each only after the
\* one before it succeeded, and main returns 0 iff all four completed.
C9_StageOrder ==
    /\ Len(trace) <= Len(Stages)
    /\ trace = SubSeq(Stages, 1, Len(trace))
    /\ pc = "done" => (ret = 0 <=> trace = Stages)
    /\ ret = 0 => pc = "done"

C9_Witness ==
    /\ pc = "done"
    /\ ret = 0
    /\ trace = Stages
    /\ html_file.state = "written"

\* C10: main always returns 0 or 1 and no exception leaves it (every
\* statement that raises is followed by the handler); when the fetch
\* succeeds and generate_html raises, main returns 1 with models_data.json
\* written by this run and index.html untouched.
C10_RenderFailureLeavesSnapshot ==
    /\ pc = "done" => ret \in {0, 1}
    /\ pc # "done" => ret = -1
    /\ pc = "except" => ENABLED Except
    /\ RenderFailed =>
        /\ json_file = [state |-> "written", content |-> models_data]
        /\ html_file.state = "untouched"
        /\ pc = "done" => ret = 1

C10_Witness ==
    /\ RenderFailed
    /\ pc = "done"
    /\ ret = 1
    /\ json_file.state = "written"

\* C1: generate_html is total over snapshots whose records have any of the
\* optional fields absent or null: it returns a document and never raises.
\* (A record is outside the claim only when a field holds a value of the
\* wrong type, here a str for context_length or for created.)
WrongType(model) ==
    model["context_length"].t = "str" \/ model["created"].t = "str"

C1_RenderIsTotal ==
    (RenderFailed /\ CanCount(models_data)) =>
        \E i \in 1..Len(models_data.models) : WrongType(models_data.models[i])

\* The value stored under pricing.prompt or pricing.completion.
StoredPrice(model, key) ==
    IF model["pricing"].t = "obj" THEN model[key] ELSE Absent

NotAvailable(cell) == cell.text = <<"N", "/", "A">> /\ cell.order = <<"0">>

\* tt ten-thousandths is the multiple of 0.0001 nearest to f * 1_000_000.
Nearest(tt, f) ==
    IF f.dec <= 6
    THEN tt % 10000 = 0 /\ tt \div 10000 = f.mant * Pow10(6 - f.dec)
    ELSE IF f.dec <= 10 THEN tt = f.mant * Pow10(10 - f.dec)
    ELSE LET unit == Pow10(f.dec - 10)
             diff == tt * unit - f.mant
         IN  2 * diff <= unit /\ -2 * diff <= unit

\* The cell displays "$" and the per-million price of f with four decimals,
\* and its sort key is the same number.
ShowsPrice(cell, f) ==
    /\ cell.text # <<>>
    /\ Head(cell.text) = "$"
    /\ LET shown == ParseFloat(Tail(cell.text))
           key == ParseFloat(cell.order)
       IN  /\ shown.ok /\ shown.dec = 4 /\ shown.neg = f.neg
           /\ Nearest(shown.mant, f)
           /\ key.ok /\ key.dec <= 4 /\ key.neg = shown.neg
           /\ key.mant * Pow10(4 - key.dec) = shown.mant

PriceKey(k) == IF k = 4 THEN "prompt" ELSE "completion"

C4_OneRowPerModel ==
    /\ Rendered =>
        /\ Len(html_content) = Len(models_data.models)
        /\ \A i \in 1..Len(html_content) :
             /\ html_content[i] = Row(models_data.models[i]).text
             /\ SelectSeq(html_content[i], IsMarkup) = RowSkeleton
             /\ Len(SelectSeq(html_content[i], IsTdOpen)) = 8
    /\ RenderFailed => models_data.data # "absent"

C4_Witness ==
    /\ Rendered
    /\ Len(html_content) = 2
    /\ html_content[1] # html_content[2]
    /\ Cell(html_content[1], 1).text = <<"m">>

\* The cell of each field the renderer recovers by a fallback.
FieldCell(f) ==
    CASE f = "context_length" -> 3
      [] f = "prompt" -> 4
      [] f = "completion" -> 5
      [] f = "created" -> 7

\* A value that is missing or malformed for field f.
Degraded(f, value) ==
    \/ value.t \in {"absent", "null"}
    \/ f \in {"context_length", "created"} /\ value.t = "str"
    \/ f \in {"prompt", "completion"} /\ ~ToFloat(value).ok

\* C5: two snapshots that differ in one price, date or context-length field
\* of one model, well-formed in one and missing or malformed in the other,
\* render to documents that differ in the cell of that field only, and the
\* rendering of neither is aborted.
C5_FieldsDegradeAlone ==
    (pc = "render" /\ ~generate_html(models_data).raised) =>
        \A i \in 1..Len(models_data.models) :
          \A a \in {b \in Alts : b[1] \in RecoveredFields} :
            LET ms == models_data.models
                alt == [ms EXCEPT ![i] = [ms[i] EXCEPT ![a[1]] = a[2]]]
                doc == Rows(ms)
                other == Rows(alt)
            IN  (/\ ~Degraded(a[1], ms[i][a[1]])
                 /\ Degraded(a[1], a[2])
                 /\ a[1] \in {"prompt", "completion"}
                        => ms[i]["pricing"].t = "obj")
                => /\ ~other.raised
                   /\ \A j \in 1..Len(ms) : \A k \in 1..8 :
                        (j # i \/ k # FieldCell(a[1]))
                        => Cell(doc.rows[j], k) = Cell(other.rows[j], k)

\* The values of the architecture that are present and not empty, in the
\* order modality, tokenizer, instruct_type.
ArchValues(model) ==
    LET stored(key) ==
            IF model["architecture"].t = "obj" THEN model[key] ELSE Absent
        part(key) ==
            IF stored(key).t = "str" /\ stored(key).s # <<>>
            THEN <<stored(key).s>> ELSE <<>>
    IN  part("modality") \o part("tokenizer") \o part("instruct_type")

RECURSIVE Join(_, _)
Join(parts, sep) ==
    IF parts = <<>> THEN <<>>
    ELSE IF Len(parts) = 1 THEN parts[1]
    ELSE parts[1] \o sep \o Join(Tail(parts), sep)

\* C6: the architecture cell is the non-empty values among modality,
\* tokenizer and instruct_type, in that order, joined by " | ", every
\* absent, null or empty value left out.
C6_ArchitectureJoin ==
    Rendered =>
        \A i \in 1..Len(html_content) :
            Unescape(Cell(html_content[i], 6).text)
                = Join(ArchValues(models_data.models[i]), <<" ", "|", " ">>)

\* C7: every text value of the catalog inserted into a row is escaped: the
\* text cells and the whole row hold no raw "&", "<", ">" or quote, and the
\* id, name and provider cells display the stored value.
C7_ValuesEscaped ==
    Rendered =>
        \A i \in 1..Len(html_content) :
            LET row == html_content[i]
                model == models_data.models[i]
            IN  /\ \A k \in {1, 2, 4, 5, 6, 7, 8} :
                     WellEscaped(Cell(row, k).text)
                /\ \A j \in 1..Len(row) : row[j] \notin {"<", ">"}
                /\ Unescape(Cell(row, 1).text) = Get(model["id"], Str(<<>>)).s
                /\ Unescape(Cell(row, 2).text)
                     = Get(model["name"], Str(<<>>)).s
                /\ Unescape(Cell(row, 8).text) = TopProviderName(model).s

C7_Witness ==
    /\ Rendered
    /\ Len(html_content) = 2
    /\ models_data.models[1]["name"].s = <<"<", "b", ">">>
    /\ models_data.models[2]["name"].s = <<"\"", "'">>
    /\ Cell(html_content[1], 2).text
         = <<"&", "l", "t", ";", "b", "&", "g", "t", ";">>

====
